---- MODULE Spec2Model ----
(***************************************************************************)
(* Model of get_snotel_shef.py: the SNOTEL scraper that encodes the        *)
(* fetched observations as a SHEF bulletin (the "new" snapshot), publishes *)
(* the lines that the previous snapshot ("last") does not hold, removes    *)
(* duplicate lines from the published file and promotes new to last.       *)
(*                                                                         *)
(* A file's content is the flat sequence of the text tokens written to it; *)
(* the token NL is the line terminator.  readlines() is the splitting of   *)
(* that sequence after every NL, so a line read back carries its           *)
(* terminator when the file holds one and does not when the line is the    *)
(* unterminated tail of the file.                                          *)
(***************************************************************************)
EXTENDS Integers, Sequences, FiniteSets, TLC

\* ------------------------------------------------------------------ bounds
MaxRecs == 3        \* rows one scrape returns
MaxStations == 3    \* rows of the station reference table
MaxLimit == 3       \* largest max_call_ids explored for the batching loop

\* ------------------------------------------------------- program constants
out_fmt == "shef"
max_call_ids_default == 95
type_source == "RB"
product_id == "snotelWeb"
NL == "\n"
None == "None"

code_dict == [PREC |-> "PC", TOBS |-> "TA", WTEQ |-> "SW", SNWD |-> "SD"]

\* code_dict.get(nrcs_code): None for a code the table does not hold
PEOf(nrcs_code) ==
    IF nrcs_code \in DOMAIN code_dict THEN code_dict[nrcs_code] ELSE None

\* ------------------------------------------------------------------ inputs
\* element codes the data service answers with (--params is free text, so a
\* code outside code_dict can come back)
ElementCodes == {"PREC", "WTEQ", "BATT"}
ShefIds == {"CLJW1"}
UtcTimes == {"20241101 Z DH1300"}
Values == {"12.3"}
\* renderings of utc_now as ddHHMM
Clocks == {"011300", "011400"}
StationIds == {"s1", "s2", "s3"}

\* one row of get_data(...).merge(get_meta(...)): the joined record
Rows ==
    { [shefId |-> s, utcTime |-> t, PE |-> PEOf(c), value |-> v] :
        s \in ShefIds, t \in UtcTimes, c \in ElementCodes, v \in Values }

SeqsUpTo(S, n) == UNION { [1..k -> S] : k \in 0..n }

\* --------------------------------------------------------- list primitives
\* Python's xs[n:]
DropFirst(xs, n) == IF n >= Len(xs) THEN <<>> ELSE SubSeq(xs, n + 1, Len(xs))

RECURSIVE Flatten(_)
Flatten(xss) == IF xss = <<>> THEN <<>> ELSE Head(xss) \o Flatten(Tail(xss))

Range(xs) == { xs[k] : k \in 1..Len(xs) }

\* "\n".join(lines)
RECURSIVE JoinNL(_)
JoinNL(lines) ==
    IF lines = <<>> THEN <<>>
    ELSE IF Len(lines) = 1 THEN lines[1]
    ELSE lines[1] \o <<NL>> \o JoinNL(Tail(lines))

\* file.readlines(): every line keeps its terminator; the tail of a file
\* that does not end in NL is a last line without one
RECURSIVE SplitLines(_, _, _)
SplitLines(content, cur, acc) ==
    IF content = <<>>
    THEN IF cur = <<>> THEN acc ELSE Append(acc, cur)
    ELSE IF Head(content) = NL
         THEN SplitLines(Tail(content), <<>>, Append(acc, Append(cur, NL)))
         ELSE SplitLines(Tail(content), Append(cur, Head(content)), acc)

ReadLines(content) == SplitLines(content, <<>>, <<>>)

\* ------------------------------------------------------------------- state
VARIABLES
    disk,             \* content of the files new, last, out (published), tmp
    isfile,           \* names of the files that exist
    pc,               \* position of the current run inside main()
    locid,            \* --locid of the current run
    bound,            \* all_data_df / all_meta_df were assigned
    final_df,         \* the joined records of the current run
    utc_now,          \* ddHHMM rendering of the run's clock reading
    baseline,         \* os.path.isfile(last_fullfn) as main() found it
    diff,             \* write_new_lines: the kept lines
    lines_seen,       \* remove_dup_lines: lines already written
    k,                \* remove_dup_lines: next line of the temporary copy
    snotel_meta_df,   \* station reference table (batching)
    max_call_ids,     \* stations per call (batching)
    batches,          \* the subset_df of every loop iteration, in order
    bpc               \* position of the batching loop

vars == <<disk, isfile, pc, locid, bound, final_df, utc_now, baseline, diff,
          lines_seen, k, snotel_meta_df, max_call_ids, batches, bpc>>

fileVars == <<disk, isfile>>
runVars == <<pc, locid, bound, final_df, utc_now, baseline, diff, lines_seen, k>>
batchVars == <<snotel_meta_df, max_call_ids, batches, bpc>>

FileNames == {"new", "last", "out", "tmp"}

\* ---------------------------------------------------------------- encoder
\* write_header, shef branch: the two header lines
write_header(now) == <<"TTAA00 KPTR ", now, NL, product_id, NL>>

\* shef_dur of main(); the model follows the HOURLY file set
shef_dur == "I"

\* one element of out_lines
EncodeLine(r) ==
    <<".AR ", r.shefId, r.utcTime, "/DUE /", r.PE, shef_dur, type_source, "ZZ ", r.value>>

out_lines(df) == [n \in 1..Len(df) |-> EncodeLine(df[n])]

\* string + None is NaN in the out_lines series, and "\n".join raises on it
HasUnsetPE(df) == \E n \in 1..Len(df) : df[n].PE = None

\* content of new_fullfn after write_header and the append of the joined lines
NewSnapshot(now, df) == write_header(now) \o JoinNL(out_lines(df))

\* ----------------------------------------------------------------- differ
start_row(fmt) == IF fmt = "csv" THEN 1 ELSE 2

\* diff of write_new_lines: new lines that are no element of set(last_lines)
DiffLines(last_content, new_content, fmt) ==
    LET new_lines == DropFirst(ReadLines(new_content), start_row(fmt))
        last_lines == DropFirst(ReadLines(last_content), start_row(fmt))
        set_last == Range(last_lines)
    IN  SelectSeq(new_lines, LAMBDA x : x \notin set_last)

\* variant of the guard that accepts a single kept line
ShouldWriteLoose(d) == Len(d) > 0
\* len(diff) > 1
ShouldWrite(d) == Len(d) > 1

\* shutil.copyfile: the destination's content after the copy
copyfile(src) == src

\* ---------------------------------------------------------------- batching
Min(a, b) == IF a < b THEN a ELSE b

\* variant of the slice whose end is one row early
IlocShort(df, i, j) ==
    IF i >= Len(df) \/ j - 1 <= i THEN <<>> ELSE SubSeq(df, i + 1, Min(j - 1, Len(df)))
\* df.iloc[i:j], zero-based, end exclusive, clipped to the table
Iloc(df, i, j) ==
    IF i >= Len(df) \/ j <= i THEN <<>> ELSE SubSeq(df, i + 1, Min(j, Len(df)))

\* range(0, n, step) as the sequence of its values
RECURSIVE RangeFrom(_, _, _)
RangeFrom(i, n, step) ==
    IF i >= n THEN <<>> ELSE <<i>> \o RangeFrom(i + step, n, step)

\* the subset_df of every iteration of the batching loop of main()
BatchLoop(df, limit) ==
    LET starts == RangeFrom(0, Len(df), limit)
    IN  [n \in 1..Len(starts) |-> Iloc(df, starts[n], starts[n] + limit)]

\* ------------------------------------------------------------------- Init
Init ==
    /\ disk = [f \in FileNames |-> <<>>]
    /\ isfile = {}
    /\ pc = "idle"
    /\ locid = "all"
    /\ bound = FALSE
    /\ final_df = <<>>
    /\ utc_now = "011300"
    /\ baseline = FALSE
    /\ diff = <<>>
    /\ lines_seen = {}
    /\ k = 1
    /\ snotel_meta_df = <<>>
    /\ max_call_ids = max_call_ids_default
    /\ batches = <<>>
    /\ bpc = "start"

\* ------------------------------------------------------------ main(): scrape
\* main() is entered by a fresh process
CanStart == pc = "idle"

\* all_data_df.merge(all_meta_df) ... final_df: the joined records
Scraped(id, df) ==
    /\ CanStart
    /\ locid' = id
    /\ bound' = TRUE
    /\ final_df' = df
    /\ UNCHANGED <<baseline, diff, lines_seen, k, batchVars>>

\* write_header(utc_now, new_fullfn) and the append of "\n".join(out_lines)
Encode(df, now) ==
    /\ ~HasUnsetPE(df)
    /\ utc_now' = now
    /\ disk' = [disk EXCEPT !["new"] = NewSnapshot(now, df)]
    /\ isfile' = isfile \cup {"new"}
    /\ pc' = "encoded"

\* a record with no physical-element code: the header is written, the join
\* of the lines raises TypeError and the run ends there
EncodeFail(df, now) ==
    /\ HasUnsetPE(df)
    /\ utc_now' = now
    /\ disk' = [disk EXCEPT !["new"] = write_header(now)]
    /\ isfile' = isfile \cup {"new"}
    /\ pc' = "aborted"

\* --locid all: every batch is fetched, the results are concatenated, joined
\* and encoded into the new snapshot
RunAll ==
    \E df \in SeqsUpTo(Rows, MaxRecs) : \E now \in Clocks :
        /\ Scraped("all", df)
        /\ Encode(df, now)

RunAllUnsetPE ==
    \E df \in SeqsUpTo(Rows, MaxRecs) : \E now \in Clocks :
        /\ Scraped("all", df)
        /\ EncodeFail(df, now)

\* --locid all with a reference table of no rows: the loop body never runs
\* and pd.concat([]) raises
ScrapeAllEmpty ==
    /\ CanStart
    /\ BatchLoop(<<>>, max_call_ids) = <<>>
    /\ pc' = "aborted"
    /\ UNCHANGED <<fileVars, locid, bound, final_df, utc_now, baseline, diff,
                   lines_seen, k, batchVars>>

\* --locid <LID> with a row in the reference table
RunSingle ==
    \E id \in ShefIds :
    \E df \in SeqsUpTo({r \in Rows : r.shefId = id}, MaxRecs) : \E now \in Clocks :
        /\ Scraped(id, df)
        /\ Encode(df, now)

RunSingleUnsetPE ==
    \E id \in ShefIds :
    \E df \in SeqsUpTo({r \in Rows : r.shefId = id}, MaxRecs) : \E now \in Clocks :
        /\ Scraped(id, df)
        /\ EncodeFail(df, now)

\* --locid <LID> with no row in the reference table: the call with no
\* triplet raises inside the try, the except logs, nothing is assigned
ScrapeMiss ==
    /\ CanStart
    /\ locid' = "XXXX9"
    /\ bound' = FALSE
    /\ pc' = "scraped"
    /\ UNCHANGED <<fileVars, final_df, utc_now, baseline, diff, lines_seen, k,
                   batchVars>>

\* all_data_df.merge(all_meta_df) on names that were never assigned
MergeFail ==
    /\ pc = "scraped"
    /\ ~bound
    /\ pc' = "aborted"
    /\ UNCHANGED <<fileVars, locid, bound, final_df, utc_now, baseline, diff,
                   lines_seen, k, batchVars>>

\* ------------------------------------------------------------ main(): differ
\* variant of the no-baseline branch that applies the kept-line guard
DiffNoBaselineGuarded ==
    /\ pc = "encoded"
    /\ "last" \notin isfile
    /\ baseline' = FALSE
    /\ LET body == DropFirst(ReadLines(disk["new"]), start_row(out_fmt))
       IN  IF ShouldWrite(body)
           THEN /\ disk' = [disk EXCEPT !["out"] = copyfile(disk["new"])]
                /\ isfile' = isfile \cup {"out"}
           ELSE UNCHANGED fileVars
    /\ pc' = "differed"
    /\ UNCHANGED <<locid, bound, final_df, utc_now, diff, lines_seen, k, batchVars>>
\* no last snapshot: the new snapshot is copied to the published file
DiffNoBaseline ==
    /\ pc = "encoded"
    /\ "last" \notin isfile
    /\ baseline' = FALSE
    /\ disk' = [disk EXCEPT !["out"] = copyfile(disk["new"])]
    /\ isfile' = isfile \cup {"out"}
    /\ pc' = "differed"
    /\ UNCHANGED <<locid, bound, final_df, utc_now, diff, lines_seen, k, batchVars>>

\* a last snapshot: write_header on the published file, then write_new_lines
DiffBaseline ==
    /\ pc = "encoded"
    /\ "last" \in isfile
    /\ baseline' = TRUE
    /\ LET d == DiffLines(disk["last"], disk["new"], out_fmt)
       IN  /\ diff' = d
           /\ IF ShouldWrite(d)
              THEN /\ disk' = [disk EXCEPT !["out"] = write_header(utc_now) \o Flatten(d)]
                   /\ isfile' = isfile \cup {"out"}
              ELSE /\ disk' = [disk EXCEPT !["out"] = <<>>]
                   /\ isfile' = isfile \ {"out"}
    /\ pc' = "differed"
    /\ UNCHANGED <<locid, bound, final_df, utc_now, lines_seen, k, batchVars>>

\* ------------------------------------------------------ remove_dup_lines
\* os.path.isfile(final_out_fullfn) is false: nothing to clean
DedupSkip ==
    /\ pc = "differed"
    /\ "out" \notin isfile
    /\ pc' = "promote"
    /\ UNCHANGED <<fileVars, locid, bound, final_df, utc_now, baseline, diff,
                   lines_seen, k, batchVars>>

\* variant that opens the published file for writing before the copy
DedupCopyOpenEarlyTruncate ==
    /\ pc = "differed"
    /\ "out" \in isfile
    /\ disk' = [disk EXCEPT !["tmp"] = <<>>, !["out"] = <<>>]
    /\ isfile' = isfile \cup {"tmp"}
    /\ pc' = "dd_copy"
    /\ UNCHANGED <<locid, bound, final_df, utc_now, baseline, diff, lines_seen, k,
                   batchVars>>
\* shutil.copyfile, first half: the temporary copy is created, empty
DedupCopyOpen ==
    /\ pc = "differed"
    /\ "out" \in isfile
    /\ disk' = [disk EXCEPT !["tmp"] = <<>>]
    /\ isfile' = isfile \cup {"tmp"}
    /\ pc' = "dd_copy"
    /\ UNCHANGED <<locid, bound, final_df, utc_now, baseline, diff, lines_seen, k,
                   batchVars>>

\* shutil.copyfile, second half: the content is written to the copy
DedupCopyData ==
    /\ pc = "dd_copy"
    /\ disk' = [disk EXCEPT !["tmp"] = copyfile(disk["out"])]
    /\ pc' = "dd_copied"
    /\ UNCHANGED <<isfile, locid, bound, final_df, utc_now, baseline, diff,
                   lines_seen, k, batchVars>>

\* lines_seen = set(); open(out_fullfn, "w") truncates the published file
DedupTruncate ==
    /\ pc = "dd_copied"
    /\ disk' = [disk EXCEPT !["out"] = <<>>]
    /\ lines_seen' = {}
    /\ k' = 1
    /\ pc' = "dd_loop"
    /\ UNCHANGED <<isfile, locid, bound, final_df, utc_now, baseline, diff, batchVars>>

\* one iteration of the loop over the lines of the temporary copy
DedupLine ==
    /\ pc = "dd_loop"
    /\ LET lines == ReadLines(disk["tmp"])
       IN  /\ k <= Len(lines)
           /\ IF lines[k] \notin lines_seen
              THEN /\ disk' = [disk EXCEPT !["out"] = disk["out"] \o lines[k]]
                   /\ lines_seen' = lines_seen \cup {lines[k]}
              ELSE UNCHANGED <<disk, lines_seen>>
    /\ k' = k + 1
    /\ UNCHANGED <<isfile, pc, locid, bound, final_df, utc_now, baseline, diff,
                   batchVars>>

\* the loop is over: outfile.close() and os.remove of the temporary copy
DedupRemoveTmp ==
    /\ pc = "dd_loop"
    /\ k > Len(ReadLines(disk["tmp"]))
    /\ disk' = [disk EXCEPT !["tmp"] = <<>>]
    /\ isfile' = isfile \ {"tmp"}
    /\ pc' = "promote"
    /\ UNCHANGED <<locid, bound, final_df, utc_now, baseline, diff, lines_seen, k,
                   batchVars>>

\* an I/O failure inside remove_dup_lines: the exception ends the run and
\* the files stay as they are
DedupFail ==
    /\ pc \in {"dd_copy", "dd_copied", "dd_loop"}
    /\ pc' = "failed_dedup"
    /\ UNCHANGED <<fileVars, locid, bound, final_df, utc_now, baseline, diff,
                   lines_seen, k, batchVars>>

\* ----------------------------------------------------------- main(): promote
\* variant that promotes only when a delta was published
PromoteIfPublished ==
    /\ pc = "promote"
    /\ IF "out" \in isfile
       THEN /\ disk' = [disk EXCEPT !["last"] = copyfile(disk["new"])]
            /\ isfile' = isfile \cup {"last"}
       ELSE UNCHANGED fileVars
    /\ pc' = "done"
    /\ UNCHANGED <<locid, bound, final_df, utc_now, baseline, diff, lines_seen, k,
                   batchVars>>
\* shutil.copyfile(new_fullfn, last_fullfn)
Promote ==
    /\ pc = "promote"
    /\ disk' = [disk EXCEPT !["last"] = copyfile(disk["new"])]
    /\ isfile' = isfile \cup {"last"}
    /\ pc' = "done"
    /\ UNCHANGED <<locid, bound, final_df, utc_now, baseline, diff, lines_seen, k,
                   batchVars>>

\* the process ends, normally or on the uncaught exception: its locals are
\* gone, and the next run's published file has a name of its own (the
\* timestamp), so for the next run neither out nor its .tmp exists
Exit ==
    /\ pc \in {"done", "aborted", "failed_dedup"}
    /\ pc' = "idle"
    /\ locid' = "all"
    /\ bound' = FALSE
    /\ final_df' = <<>>
    /\ utc_now' = "011300"
    /\ baseline' = FALSE
    /\ diff' = <<>>
    /\ lines_seen' = {}
    /\ k' = 1
    /\ disk' = [disk EXCEPT !["out"] = <<>>, !["tmp"] = <<>>]
    /\ isfile' = isfile \ {"out", "tmp"}
    /\ UNCHANGED batchVars

Next ==
    \/ RunAll
    \/ RunAllUnsetPE
    \/ ScrapeAllEmpty
    \/ RunSingle
    \/ RunSingleUnsetPE
    \/ ScrapeMiss
    \/ MergeFail
    \/ DiffNoBaseline
    \/ DiffBaseline
    \/ DedupSkip
    \/ DedupCopyOpen
    \/ DedupCopyData
    \/ DedupTruncate
    \/ DedupLine
    \/ DedupRemoveTmp
    \/ DedupFail
    \/ Promote
    \/ Exit

Spec == Init /\ [][Next]_vars

\* ------------------------------------------------- the batching loop alone
InitBatch ==
    /\ disk = [f \in FileNames |-> <<>>]
    /\ isfile = {}
    /\ pc = "idle"
    /\ locid = "all"
    /\ bound = FALSE
    /\ final_df = <<>>
    /\ utc_now = "011300"
    /\ baseline = FALSE
    /\ diff = <<>>
    /\ lines_seen = {}
    /\ k = 1
    /\ snotel_meta_df \in SeqsUpTo(StationIds, MaxStations)
    /\ max_call_ids \in 1..MaxLimit
    /\ batches = <<>>
    /\ bpc = "start"

\* the for loop of main() over range(0, len(snotel_meta_df), max_call_ids)
RunBatchLoop ==
    /\ bpc = "start"
    /\ batches' = BatchLoop(snotel_meta_df, max_call_ids)
    /\ bpc' = "batched"
    /\ UNCHANGED <<fileVars, runVars, snotel_meta_df, max_call_ids>>

NextBatch == RunBatchLoop

SpecBatch == InitBatch /\ [][NextBatch]_vars

\* =================================================================== claims
\* a line without its terminator
Text(line) ==
    IF line # <<>> /\ line[Len(line)] = NL THEN SubSeq(line, 1, Len(line) - 1) ELSE line

Texts(lines) == [n \in 1..Len(lines) |-> Text(lines[n])]

\* the lines of a snapshot or published file after its header lines
Body(content) == DropFirst(ReadLines(content), start_row(out_fmt))

\* xs without the later occurrences of its elements
RECURSIVE FirstSeenFrom(_, _)
FirstSeenFrom(xs, seen) ==
    IF xs = <<>> THEN <<>>
    ELSE IF Head(xs) \in seen THEN FirstSeenFrom(Tail(xs), seen)
    ELSE <<Head(xs)>> \o FirstSeenFrom(Tail(xs), seen \cup {Head(xs)})

FirstSeen(xs) == FirstSeenFrom(xs, {})

NoRepeat(xs) == \A m, n \in 1..Len(xs) : xs[m] = xs[n] => m = n

\* what the differ handed to remove_dup_lines in the current run
PreDedup == IF baseline THEN write_header(utc_now) \o Flatten(diff) ELSE disk["new"]

\* C1: when a run with a baseline has finished its delta (differ and
\* deduplicator done, last not yet overwritten), no observation line of the
\* body of the previous snapshot is in the body of the published delta.
C1_NoRedelivery ==
    (pc = "promote" /\ baseline /\ "out" \in isfile) =>
        Range(Texts(Body(disk["last"]))) \cap Range(Texts(Body(disk["out"]))) = {}

\* C2: with a baseline, the kept lines of write_new_lines are the body lines
\* of the new snapshot, in order and multiplicity, whose text is no body line
\* of the last snapshot (header lines of both skipped).
C2_KeptLines ==
    (pc = "differed" /\ baseline) =>
        Texts(diff) =
            SelectSeq(Texts(Body(disk["new"])),
                      LAMBDA t : t \notin Range(Texts(Body(disk["last"]))))

\* C3: with a baseline, when the differ is finished the delta file exists
\* exactly if at least 2 lines were kept; it then reads back as the two
\* fresh header lines followed by the kept lines in order; a new snapshot
\* with the baseline's body publishes no file.
C3_GuardedDelta ==
    (pc = "differed" /\ baseline) =>
        /\ ("out" \in isfile) <=> (Len(diff) >= 2)
        /\ Len(diff) >= 2 =>
              ReadLines(disk["out"]) = ReadLines(write_header(utc_now)) \o diff
        /\ Body(disk["new"]) = Body(disk["last"]) => "out" \notin isfile

C3_Witness ==
    /\ pc = "differed"
    /\ baseline
    /\ Len(diff) = 1
    /\ "out" \notin isfile

\* C4 as stated: without a baseline the published delta of a finished run is
\* the new snapshot, header and body, verbatim.
C4_PublishedVerbatim ==
    (pc \in {"promote", "done"} /\ ~baseline) =>
        "out" \in isfile /\ disk["out"] = disk["new"]

\* C4 amended: without a baseline the differ's delta is the new snapshot
\* verbatim whatever the number of body lines, and the delta published after
\* remove_dup_lines is that snapshot without the repeats of its lines.
C4_VerbatimThenDedup ==
    /\ (pc = "differed" /\ ~baseline) =>
          "out" \in isfile /\ disk["out"] = disk["new"]
    /\ (pc \in {"promote", "done"} /\ ~baseline) =>
          /\ "out" \in isfile
          /\ ReadLines(disk["out"]) = FirstSeen(ReadLines(disk["new"]))

C4_Witness ==
    /\ pc = "done"
    /\ ~baseline
    /\ Len(Body(disk["new"])) = 1
    /\ disk["out"] = disk["new"]

\* C5: from the encoding to the end of the run the new snapshot stays what
\* the encoder wrote, and when the run is done the last snapshot exists and
\* equals it, whichever branch the differ took.
C5_Promoted ==
    /\ pc \in {"encoded", "differed", "dd_copy", "dd_copied", "dd_loop",
               "failed_dedup", "promote", "done"} =>
          disk["new"] = NewSnapshot(utc_now, final_df)
    /\ pc = "done" => "last" \in isfile /\ disk["last"] = disk["new"]

C5_Witness ==
    /\ pc = "done"
    /\ baseline
    /\ Len(diff) = 1
    /\ "out" \notin isfile
    /\ disk["last"] = disk["new"]

\* C6: after remove_dup_lines the published file holds every line once: its
\* lines are the first occurrences of the lines it was handed, in order.
C6_DedupFirstOccurrences ==
    (pc = "promote" /\ "out" \in isfile) =>
        /\ NoRepeat(Texts(ReadLines(disk["out"])))
        /\ Texts(ReadLines(disk["out"])) = FirstSeen(Texts(ReadLines(PreDedup)))

\* C7: the batches of the loop are each at most max_call_ids long and their
\* concatenation is the station list; no station, no batch.
C7_Batching ==
    bpc = "batched" =>
        /\ Flatten(batches) = snotel_meta_df
        /\ \A n \in 1..Len(batches) : Len(batches[n]) <= max_call_ids
        /\ snotel_meta_df = <<>> => batches = <<>>

C7_Witness ==
    /\ bpc = "batched"
    /\ Len(batches) >= 2
    /\ Len(batches[Len(batches)]) < max_call_ids

\* C8: a run whose --locid matches no row of the reference table does not
\* abort, publishes nothing and leaves the snapshot files alone.
C8_LookupMissAbsorbed ==
    locid \notin (ShefIds \cup {"all"}) =>
        /\ pc # "aborted"
        /\ "out" \notin isfile

\* C9: a run that fetched a record with no physical-element code is not
\* aborted, and its new snapshot holds the lines of the other records only.
C9_UnsetPESkipped ==
    HasUnsetPE(final_df) =>
        /\ pc # "aborted"
        /\ disk["new"] =
              NewSnapshot(utc_now, SelectSeq(final_df, LAMBDA r : r.PE # None))

\* C10: while remove_dup_lines runs, and after a failure inside it, the
\* published file or its temporary copy holds the whole content the
\* function was handed; once the published file is truncated the copy holds
\* it; the copy is gone only when the rewrite is complete.
C10_CrashSafe ==
    /\ pc \in {"dd_copy", "dd_copied", "dd_loop", "failed_dedup"} =>
          \/ "out" \in isfile /\ disk["out"] = PreDedup
          \/ "tmp" \in isfile /\ disk["tmp"] = PreDedup
    /\ pc = "dd_loop" => "tmp" \in isfile /\ disk["tmp"] = PreDedup
    /\ (pc = "promote" /\ "out" \in isfile) =>
          /\ "tmp" \notin isfile
          /\ ReadLines(disk["out"]) = FirstSeen(ReadLines(PreDedup))

C10_Witness ==
    /\ pc = "failed_dedup"
    /\ disk["out"] # PreDedup
    /\ disk["out"] # <<>>
    /\ disk["tmp"] = PreDedup

====
